---- MODULE Spec2Model ----
(***************************************************************************)
(* Financial tracker (src/src/App.vue, src/src/components/CsvImport.vue,   *)
(* src/src/components/FinancialList.vue): the entry store, the monthly     *)
(* summary, the statement (CSV) parser, the JSON backup import/export and  *)
(* the localStorage persistence, as one state machine.                     *)
(*                                                                         *)
(* JavaScript numbers are modelled as exact rationals in lowest terms plus *)
(* NaN; IEEE-754 rounding and the infinities are outside the model.        *)
(***************************************************************************)
EXTENDS Integers, Sequences, FiniteSets, TLC

VARIABLES
  incomeEntries,   \* App.vue:7   ref<FinancialEntry[]>
  expenseEntries,  \* App.vue:8   ref<FinancialEntry[]>
  localStorage,    \* the 'financial-tracker-data' slot: Absent or Present(text)
  mounted,         \* onMounted has run (App.vue:212)
  watchQueued,     \* the deep watcher's job is queued (App.vue:204)
  saved,           \* saveToLocalStorage has run since the page was loaded
  lastOp,          \* the handler whose watcher job is queued, "idle" if none
  calcIn,          \* arguments handed to the calculators (SpecCalc)
  calcOut,         \* their results, << >> before the call
  csvText,         \* the statement text given to parseCSV (SpecParser)
  csvOut           \* what parseCSV emitted, << >> before the call

vars == <<incomeEntries, expenseEntries, localStorage, mounted, watchQueued,
          saved, lastOp, calcIn, calcOut, csvText, csvOut>>

storeVars == <<incomeEntries, expenseEntries, localStorage, mounted,
               watchQueued, saved, lastOp>>
calcVars == <<calcIn, calcOut>>
csvVars == <<csvText, csvOut>>

(***************************************************************************)
(* Optional values: an absent (undefined) property is << >>, a present one *)
(* is <<v>>.                                                               *)
(***************************************************************************)
Absent == << >>
Present(v) == <<v>>

(***************************************************************************)
(* Numbers.                                                                *)
(***************************************************************************)
AbsInt(i) == IF i < 0 THEN -i ELSE i

RECURSIVE Gcd(_, _)
Gcd(a, b) == IF b = 0 THEN a ELSE Gcd(b, a % b)

NaN == [nan |-> TRUE, n |-> 0, d |-> 1]

\* the rational n/d (d # 0) in lowest terms with a positive denominator
Num(n, d) ==
  LET g == Gcd(AbsInt(n), AbsInt(d))
      s == IF d < 0 THEN -1 ELSE 1
  IN [nan |-> FALSE, n |-> (s * n) \div g, d |-> (s * d) \div g]

IntNum(i) == Num(i, 1)

NumAdd(x, y) ==
  IF x.nan \/ y.nan THEN NaN ELSE Num(x.n * y.d + y.n * x.d, x.d * y.d)

NumSub(x, y) ==
  IF x.nan \/ y.nan THEN NaN ELSE Num(x.n * y.d - y.n * x.d, x.d * y.d)

NumMul(x, y) ==
  IF x.nan \/ y.nan THEN NaN ELSE Num(x.n * y.n, x.d * y.d)

\* the code divides by the literals 12 and 100 only; x / 0 is not modelled
NumDiv(x, y) ==
  IF x.nan \/ y.nan \/ y.n = 0 THEN NaN ELSE Num(x.n * y.d, x.d * y.n)

\* Math.abs
MathAbs(x) == IF x.nan THEN NaN ELSE Num(AbsInt(x.n), x.d)

\* JavaScript truthiness of a number: 0 and NaN are falsy
NumTruthy(x) == ~x.nan /\ x.n # 0

\* x > 0; any comparison with NaN is false
NumGtZero(x) == ~x.nan /\ x.n > 0

(***************************************************************************)
(* Entries.  type and date exist on statement-imported entries only        *)
(* (CsvImport.vue:26-34); the entry form leaves them undefined             *)
(* (FinancialList.vue:44-50).  A date is a Date object (its time value, or *)
(* "NaN" for an Invalid Date), or what JSON makes of one: a string or      *)
(* null.                                                                   *)
(***************************************************************************)
Frequencies == {"daily", "weekly", "monthly", "yearly"}

UndefinedDate == [kind |-> "undefined", v |-> ""]
DateObject(time) == [kind |-> "Date", v |-> time]
InvalidDate == DateObject("NaN")
DateString(s) == [kind |-> "string", v |-> s]
NullDate == [kind |-> "null", v |-> ""]

TaxElement(id, name, percentage) ==
  [id |-> id, name |-> name, percentage |-> percentage]

Entry(id, description, amount, frequency, taxes, type, date) ==
  [id |-> id, description |-> description, amount |-> amount,
   frequency |-> frequency, taxes |-> taxes, type |-> type, date |-> date]

(***************************************************************************)
(* calculateMonthlyAmount, App.vue:10-21.                                  *)
(***************************************************************************)
calculateMonthlyAmount_truncating(entry) ==
  CASE entry.frequency = "daily" -> NumMul(entry.amount, IntNum(30))
    [] entry.frequency = "weekly" -> NumMul(entry.amount, IntNum(4))
    [] entry.frequency = "yearly" ->
         IF entry.amount.nan THEN NaN
         ELSE IntNum((entry.amount.n \div entry.amount.d) \div 12)
    [] OTHER -> entry.amount

calculateMonthlyAmount(entry) ==
  CASE entry.frequency = "daily" -> NumMul(entry.amount, IntNum(30))
    [] entry.frequency = "weekly" -> NumMul(entry.amount, IntNum(4))
    [] entry.frequency = "yearly" -> NumDiv(entry.amount, IntNum(12))
    [] OTHER -> entry.amount

\* how a call of calculateMonthlyAmount ends: the switch has a default
\* branch and no throw, so every call returns a number
monthlyAmountOutcome(entry) ==
  [kind |-> "returned", value |-> calculateMonthlyAmount(entry)]

(***************************************************************************)
(* calculateTaxAmount, App.vue:23-26.  taxes is optional: Absent or        *)
(* Present(list).                                                          *)
(***************************************************************************)
\* taxes.reduce((sum, tax) => sum + monthlyAmount * tax.percentage / 100, 0)
RECURSIVE ReduceTaxes(_, _, _, _)
ReduceTaxes(list, i, sum, monthlyAmount) ==
  IF i > Len(list) THEN sum
  ELSE ReduceTaxes(list, i + 1,
         NumAdd(sum, NumDiv(NumMul(monthlyAmount, list[i].percentage), IntNum(100))),
         monthlyAmount)

\* a compounding variant: each percentage applied to what the earlier ones left
RECURSIVE ReduceTaxesCompounding(_, _, _, _)
ReduceTaxesCompounding(list, i, sum, monthlyAmount) ==
  IF i > Len(list) THEN sum
  ELSE ReduceTaxesCompounding(list, i + 1,
         NumAdd(sum, NumDiv(NumMul(NumSub(monthlyAmount, sum), list[i].percentage),
                            IntNum(100))),
         monthlyAmount)

calculateTaxAmount_compounding(monthlyAmount, taxes) ==
  IF taxes = Absent \/ Len(taxes[1]) = 0 THEN IntNum(0)
  ELSE ReduceTaxesCompounding(taxes[1], 1, IntNum(0), monthlyAmount)

calculateTaxAmount(monthlyAmount, taxes) ==
  IF taxes = Absent \/ Len(taxes[1]) = 0 THEN IntNum(0)
  ELSE ReduceTaxes(taxes[1], 1, IntNum(0), monthlyAmount)

(***************************************************************************)
(* summary, App.vue:28-53: two left folds, then the derived fields.        *)
(***************************************************************************)
\* incomeEntries.value.reduce((acc, entry) => ..., { total: 0, taxes: 0 })
RECURSIVE ReduceIncome(_, _, _)
ReduceIncome(entries, i, acc) ==
  IF i > Len(entries) THEN acc
  ELSE LET monthlyAmount == calculateMonthlyAmount(entries[i])
           taxAmount == calculateTaxAmount(monthlyAmount, entries[i].taxes)
       IN ReduceIncome(entries, i + 1,
            [total |-> NumAdd(acc.total, monthlyAmount),
             taxes |-> NumAdd(acc.taxes, taxAmount)])

\* expenseEntries.value.reduce((sum, entry) => sum + calculateMonthlyAmount(entry), 0)
RECURSIVE ReduceExpenses(_, _, _)
ReduceExpenses(entries, i, sum) ==
  IF i > Len(entries) THEN sum
  ELSE ReduceExpenses(entries, i + 1,
         NumAdd(sum, calculateMonthlyAmount(entries[i])))

\* a variant whose balance forgets the taxes
summarize_grossBalance(income, expenses) ==
  LET incomeDetails == ReduceIncome(income, 1, [total |-> IntNum(0), taxes |-> IntNum(0)])
      totalExpenses == ReduceExpenses(expenses, 1, IntNum(0))
  IN [totalIncome |-> incomeDetails.total,
      totalTaxes |-> incomeDetails.taxes,
      totalExpenses |-> totalExpenses,
      netIncome |-> NumSub(incomeDetails.total, incomeDetails.taxes),
      balance |-> NumSub(incomeDetails.total, totalExpenses)]

summarize(income, expenses) ==
  LET incomeDetails == ReduceIncome(income, 1, [total |-> IntNum(0), taxes |-> IntNum(0)])
      totalExpenses == ReduceExpenses(expenses, 1, IntNum(0))
  IN [totalIncome |-> incomeDetails.total,
      totalTaxes |-> incomeDetails.taxes,
      totalExpenses |-> totalExpenses,
      netIncome |-> NumSub(incomeDetails.total, incomeDetails.taxes),
      balance |-> NumSub(NumSub(incomeDetails.total, incomeDetails.taxes),
                         totalExpenses)]

\* the computed value the template reads: recomputed from the current refs
summary == summarize(incomeEntries, expenseEntries)

(***************************************************************************)
(* JSON.  A text is modelled by the value it denotes: malformed (          *)
(* JSON.parse throws), the literal null, or an object whose income and     *)
(* expenses properties are absent, null, a string or an array of entries.  *)
(***************************************************************************)
FieldAbsent == [kind |-> "absent", items |-> << >>]
FieldNull == [kind |-> "null", items |-> << >>]
FieldString == [kind |-> "string", items |-> << >>]   \* a non-empty string
FieldArray(items) == [kind |-> "array", items |-> items]

MalformedText == [kind |-> "malformed", income |-> FieldAbsent, expenses |-> FieldAbsent]
NullText == [kind |-> "null", income |-> FieldAbsent, expenses |-> FieldAbsent]
ObjectText(income, expenses) ==
  [kind |-> "object", income |-> income, expenses |-> expenses]

\* Date.prototype.toJSON: the ISO string, or null for an Invalid Date; an
\* undefined property is left out of the text, a string or null stays
DateToJSON(date) ==
  CASE date.kind = "Date" /\ date.v = "NaN" -> NullDate
    [] date.kind = "Date" -> DateString(date.v)
    [] OTHER -> date

EntryToJSON(entry) == [entry EXCEPT !.date = DateToJSON(@)]

EntriesToJSON(entries) == [i \in 1..Len(entries) |-> EntryToJSON(entries[i])]

\* JSON.stringify({ income, expenses }), App.vue:121-126 and 165-169
JSONstringify(income, expenses) ==
  ObjectText(FieldArray(EntriesToJSON(income)), FieldArray(EntriesToJSON(expenses)))

\* data.income && Array.isArray(data.income): "" and null and undefined are
\* falsy, every array (the empty one too) and every non-empty string truthy
Truthy(field) == field.kind \in {"string", "array"}
ArrayIsArray(field) == field.kind = "array"

\* the try block of importData / loadFromLocalStorage (App.vue:146-153,
\* 175-182): <<income, expenses, assignedIncome, assignedExpenses>>.
\* JSON.parse throws on a malformed text and data.income throws on null:
\* both land in the catch with nothing assigned.
loadDocument(text, income, expenses) ==
  IF text.kind # "object" THEN <<income, expenses, FALSE, FALSE>>
  ELSE LET takeIncome == Truthy(text.income) /\ ArrayIsArray(text.income)
           takeExpenses == Truthy(text.expenses) /\ ArrayIsArray(text.expenses)
       IN <<IF takeIncome THEN text.income.items ELSE income,
            IF takeExpenses THEN text.expenses.items ELSE expenses,
            takeIncome, takeExpenses>>

(***************************************************************************)
(* The statement parser, CsvImport.vue:8-41.  A text is modelled already   *)
(* cut at its separators: a sequence of lines (text.split('\n')), each a   *)
(* non-empty sequence of fields (line.split(';')).                         *)
(***************************************************************************)
WhitespaceOnly == {"", " "}

\* !line.trim(): the line holds no separator and nothing but white space
IsBlankLine(line) == Len(line) = 1 /\ line[1] \in WhitespaceOnly

\* values[i] (0-based): undefined past the end
Field(values, i) == IF i < Len(values) THEN Present(values[i + 1]) ELSE Absent

\* truthiness of values[i]: undefined and "" are falsy
StringTruthy(opt) == opt # Absent /\ opt[1] # ""

\* parseFloat on the sample tokens: a numeric prefix is read, anything
\* without one ("abc", " ") gives NaN
parseFloat(s) ==
  CASE s = "45.50" -> Num(91, 2)
    [] s = "1200" -> IntNum(1200)
    [] s = "-20" -> IntNum(-20)
    [] s = "0" -> IntNum(0)
    [] s = "12abc" -> IntNum(12)
    [] OTHER -> NaN

\* values[0].split('/') on the sample date tokens
SplitSlash(s) ==
  CASE s = "01/03/2024" -> <<"01", "03", "2024">>
    [] s = "25/12/2024" -> <<"25", "12", "2024">>
    [] s = "n/a" -> <<"n", "a">>
    [] OTHER -> <<s>>

Reverse(parts) == [i \in 1..Len(parts) |-> parts[Len(parts) + 1 - i]]

RECURSIVE Join(_, _)
Join(parts, sep) ==
  IF Len(parts) = 0 THEN ""
  ELSE IF Len(parts) = 1 THEN parts[1]
  ELSE parts[1] \o sep \o Join(Tail(parts), sep)

\* new Date(s): a Date at midnight UTC for an ISO date, else an Invalid Date
NewDate(s) ==
  IF s \in {"2024-03-01", "2024-12-25"} THEN DateObject(s \o "T00:00:00.000Z")
  ELSE InvalidDate

\* crypto.randomUUID(): a value no entry carries yet, named "u<k>" by the
\* first k not in use
RECURSIVE FirstUnused(_, _)
FirstUnused(used, k) ==
  IF ("u" \o ToString(k)) \in used THEN FirstUnused(used, k + 1)
  ELSE "u" \o ToString(k)

randomUUID(used) == FirstUnused(used, 1)

TypeUndefined == "undefined"

\* the map callback, CsvImport.vue:18-35.  values[2] of a line with fewer
\* than three fields is undefined; such a line has no amount and is
\* filtered out, and its description is written "" here.
\* A variant that decides the type by the debit column being filled in
RowEntry_byPresence(values, id) ==
  LET debit == IF StringTruthy(Field(values, 8)) THEN parseFloat(values[9]) ELSE IntNum(0)
      credit == IF StringTruthy(Field(values, 9)) THEN parseFloat(values[10]) ELSE IntNum(0)
      isDebit == StringTruthy(Field(values, 8))
  IN Entry(id,
           IF Len(values) > 2 THEN values[3] ELSE "",
           MathAbs(IF isDebit THEN debit ELSE credit),
           "monthly", Present(<< >>),
           IF isDebit THEN "expense" ELSE "income",
           NewDate(Join(Reverse(SplitSlash(values[1])), "-")))

RowEntry(values, id) ==
  LET debit == IF StringTruthy(Field(values, 8)) THEN parseFloat(values[9]) ELSE IntNum(0)
      credit == IF StringTruthy(Field(values, 9)) THEN parseFloat(values[10]) ELSE IntNum(0)
  IN Entry(id,
           IF Len(values) > 2 THEN values[3] ELSE "",
           MathAbs(IF NumTruthy(debit) THEN debit ELSE credit),
           "monthly", Present(<< >>),
           IF NumTruthy(debit) THEN "expense" ELSE "income",
           NewDate(Join(Reverse(SplitSlash(values[1])), "-")))

\* .map(...) over the kept lines, each entry with a fresh id
RECURSIVE MapRows(_, _, _, _)
MapRows(rows, i, used, acc) ==
  IF i > Len(rows) THEN acc
  ELSE LET id == randomUUID(used)
       IN MapRows(rows, i + 1, used \cup {id}, Append(acc, RowEntry(rows[i], id)))

\* lines.slice(1).filter(line => line.trim()).map(...).filter(e => e.amount > 0)
parseCSV(text, used) ==
  LET NonBlank(line) == ~IsBlankLine(line)
      Positive(entry) == NumGtZero(entry.amount)
  IN SelectSeq(MapRows(SelectSeq(Tail(text), NonBlank), 1, used, << >>), Positive)

(***************************************************************************)
(* Bounds and the inputs the environment draws from.                       *)
(***************************************************************************)
\* the entry form and the statement import are offered while the store
\* holds fewer entries than this
MaxEntries == 2

\* data lines of a statement text in SpecParser
MaxRows == 2

\* what the user types into the entry form and the inline editors
FormDescriptions == {"Salary"}
FormAmounts == {IntNum(1200)}
FormFrequencies == {"weekly"}
EditDescriptions == {"Salary"}
EditAmounts == {IntNum(-50)}
EditFrequencies == {"weekly"}
NoSuchId == "none"

VAT == TaxElement("t1", "VAT", IntNum(10))
Levy == TaxElement("t2", "Levy", IntNum(20))
TaxLists == {<<VAT, Levy>>}

\* backup files offered to "Import Data"
Bonus == Entry("j1", "Bonus", IntNum(1200), "quarterly", Absent, TypeUndefined, UndefinedDate)
Lease == Entry("j2", "Lease", IntNum(1200), "yearly", Absent, TypeUndefined, UndefinedDate)
JsonFiles ==
  { MalformedText,
    NullText,
    ObjectText(FieldString, FieldAbsent),
    ObjectText(FieldArray(<<Bonus>>), FieldString),
    ObjectText(FieldArray(<< >>), FieldArray(<<Lease>>)),
    ObjectText(FieldArray(<<Bonus, Bonus>>), FieldArray(<< >>)) }

\* what the slot may hold when the page is first opened
InitialSlots ==
  { Absent, Present(MalformedText), Present(ObjectText(FieldString, FieldAbsent)) }

\* statement files offered to the CSV import
Header == <<"Date", "", "Libelle", "", "", "", "", "", "Debit", "Credit">>
Row(date, description, debit, credit) ==
  <<date, "", description, "", "", "", "", "", debit, credit, "">>
StatementFiles ==
  { <<Header, Row("01/03/2024", "Salary", "1200", ""),
              Row("25/12/2024", "Salary", "", "1200")>>,
    <<Header, Row("25/12/2024", "Salary", "0", "1200"), <<"">>,
              Row("01/03/2024", "Fee", "abc", "")>> }

(***************************************************************************)
(* The store, App.vue.                                                     *)
(***************************************************************************)
Ids(entries) == {entries[i].id : i \in 1..Len(entries)}
UsedIds == Ids(incomeEntries) \cup Ids(expenseEntries)

\* a handler runs when the page is mounted and the scheduler's queue is
\* empty: a queued watcher job is flushed before the next event is handled
Ready == mounted /\ ~watchQueued

\* entries.find(entry => entry.id === entryId): the first match, 0 if none
FindIndex(entries, entryId) ==
  IF entryId \in Ids(entries)
  THEN CHOOSE i \in 1..Len(entries) :
         /\ entries[i].id = entryId
         /\ \A j \in 1..(i - 1) : entries[j].id # entryId
  ELSE 0

\* entries.filter(entry => entry.id !== id)
RemoveById(entries, id) ==
  LET Keep(entry) == entry.id # id IN SelectSeq(entries, Keep)

\* addEntry, FinancialList.vue:41-55
NewEntry(description, amount, frequency) ==
  Entry(randomUUID(UsedIds), description, amount, frequency, Present(<< >>),
        TypeUndefined, UndefinedDate)

\* onMounted -> loadFromLocalStorage, App.vue:172-187, 212-214
Mount ==
  /\ ~mounted
  /\ mounted' = TRUE
  /\ IF localStorage = Absent
     THEN UNCHANGED <<incomeEntries, expenseEntries, watchQueued>>
     ELSE LET r == loadDocument(localStorage[1], incomeEntries, expenseEntries)
          IN /\ incomeEntries' = r[1]
             /\ expenseEntries' = r[2]
             /\ watchQueued' = (r[3] \/ r[4])
  /\ lastOp' = IF watchQueued' THEN "loadFromLocalStorage" ELSE lastOp
  /\ UNCHANGED <<localStorage, saved, calcVars, csvVars>>

\* the watcher's job -> saveToLocalStorage, App.vue:164-170, 204-210
RunWatcher ==
  /\ watchQueued
  /\ localStorage' = Present(JSONstringify(incomeEntries, expenseEntries))
  /\ watchQueued' = FALSE
  /\ saved' = TRUE
  /\ lastOp' = "idle"
  /\ UNCHANGED <<incomeEntries, expenseEntries, mounted, calcVars, csvVars>>

\* addEntry -> addIncome, App.vue:55-57
AddIncome(description, amount, frequency) ==
  /\ Ready
  /\ Len(incomeEntries) + Len(expenseEntries) < MaxEntries
  /\ description # "" /\ NumTruthy(amount)
  /\ incomeEntries' = Append(incomeEntries, NewEntry(description, amount, frequency))
  /\ watchQueued' = TRUE
  /\ lastOp' = IF watchQueued' THEN "addIncome" ELSE lastOp
  /\ UNCHANGED <<expenseEntries, localStorage, mounted, saved, calcVars, csvVars>>

\* addEntry -> addExpense, App.vue:59-61
AddExpense(description, amount, frequency) ==
  /\ Ready
  /\ Len(incomeEntries) + Len(expenseEntries) < MaxEntries
  /\ description # "" /\ NumTruthy(amount)
  /\ expenseEntries' = Append(expenseEntries, NewEntry(description, amount, frequency))
  /\ watchQueued' = TRUE
  /\ lastOp' = IF watchQueued' THEN "addExpense" ELSE lastOp
  /\ UNCHANGED <<incomeEntries, localStorage, mounted, saved, calcVars, csvVars>>

\* removeIncome, App.vue:63-65: a new array is assigned, match or not
RemoveIncome(id) ==
  /\ Ready
  /\ incomeEntries' = RemoveById(incomeEntries, id)
  /\ watchQueued' = TRUE
  /\ lastOp' = IF watchQueued' THEN "removeIncome" ELSE lastOp
  /\ UNCHANGED <<expenseEntries, localStorage, mounted, saved, calcVars, csvVars>>

\* removeExpense, App.vue:67-69
RemoveExpense(id) ==
  /\ Ready
  /\ expenseEntries' = RemoveById(expenseEntries, id)
  /\ watchQueued' = TRUE
  /\ lastOp' = IF watchQueued' THEN "removeExpense" ELSE lastOp
  /\ UNCHANGED <<incomeEntries, localStorage, mounted, saved, calcVars, csvVars>>

\* the updates, App.vue:71-118: the first entry with the id gets the field;
\* writing a primitive that is already there triggers nothing, a taxes
\* array is always a new object
UpdateIncomeTaxes(entryId, taxes) ==
  /\ Ready
  /\ LET i == FindIndex(incomeEntries, entryId)
     IN IF i = 0 THEN UNCHANGED <<incomeEntries, watchQueued>>
        ELSE /\ incomeEntries' = [incomeEntries EXCEPT ![i].taxes = Present(taxes)]
             /\ watchQueued' = TRUE
  /\ lastOp' = IF watchQueued' THEN "updateIncomeTaxes" ELSE lastOp
  /\ UNCHANGED <<expenseEntries, localStorage, mounted, saved, calcVars, csvVars>>

UpdateIncomeFrequency(entryId, frequency) ==
  /\ Ready
  /\ LET i == FindIndex(incomeEntries, entryId)
     IN IF i = 0 THEN UNCHANGED <<incomeEntries, watchQueued>>
        ELSE /\ incomeEntries' = [incomeEntries EXCEPT ![i].frequency = frequency]
             /\ watchQueued' = (incomeEntries[i].frequency # frequency)
  /\ lastOp' = IF watchQueued' THEN "updateIncomeFrequency" ELSE lastOp
  /\ UNCHANGED <<expenseEntries, localStorage, mounted, saved, calcVars, csvVars>>

UpdateExpenseFrequency(entryId, frequency) ==
  /\ Ready
  /\ LET i == FindIndex(expenseEntries, entryId)
     IN IF i = 0 THEN UNCHANGED <<expenseEntries, watchQueued>>
        ELSE /\ expenseEntries' = [expenseEntries EXCEPT ![i].frequency = frequency]
             /\ watchQueued' = (expenseEntries[i].frequency # frequency)
  /\ lastOp' = IF watchQueued' THEN "updateExpenseFrequency" ELSE lastOp
  /\ UNCHANGED <<incomeEntries, localStorage, mounted, saved, calcVars, csvVars>>

\* saveDescription (FinancialList.vue:109-114) -> updateIncomeDescription
UpdateIncomeDescription(entryId, description) ==
  /\ Ready
  /\ description \notin WhitespaceOnly
  /\ LET i == FindIndex(incomeEntries, entryId)
     IN IF i = 0 THEN UNCHANGED <<incomeEntries, watchQueued>>
        ELSE /\ incomeEntries' = [incomeEntries EXCEPT ![i].description = description]
             /\ watchQueued' = (incomeEntries[i].description # description)
  /\ lastOp' = IF watchQueued' THEN "updateIncomeDescription" ELSE lastOp
  /\ UNCHANGED <<expenseEntries, localStorage, mounted, saved, calcVars, csvVars>>

\* saveAmount (FinancialList.vue:122-128) -> updateIncomeAmount
UpdateIncomeAmount(entryId, amount) ==
  /\ Ready
  /\ ~amount.nan
  /\ LET i == FindIndex(incomeEntries, entryId)
     IN IF i = 0 THEN UNCHANGED <<incomeEntries, watchQueued>>
        ELSE /\ incomeEntries' = [incomeEntries EXCEPT ![i].amount = amount]
             /\ watchQueued' = (incomeEntries[i].amount # amount)
  /\ lastOp' = IF watchQueued' THEN "updateIncomeAmount" ELSE lastOp
  /\ UNCHANGED <<expenseEntries, localStorage, mounted, saved, calcVars, csvVars>>

UpdateExpenseDescription(entryId, description) ==
  /\ Ready
  /\ description \notin WhitespaceOnly
  /\ LET i == FindIndex(expenseEntries, entryId)
     IN IF i = 0 THEN UNCHANGED <<expenseEntries, watchQueued>>
        ELSE /\ expenseEntries' = [expenseEntries EXCEPT ![i].description = description]
             /\ watchQueued' = (expenseEntries[i].description # description)
  /\ lastOp' = IF watchQueued' THEN "updateExpenseDescription" ELSE lastOp
  /\ UNCHANGED <<incomeEntries, localStorage, mounted, saved, calcVars, csvVars>>

\* a variant that forgets to look for the id: every expense gets the amount
UpdateExpenseAmount_everyEntry(entryId, amount) ==
  /\ Ready
  /\ ~amount.nan
  /\ expenseEntries' = [j \in 1..Len(expenseEntries) |->
                          [expenseEntries[j] EXCEPT !.amount = amount]]
  /\ watchQueued' = (expenseEntries' # expenseEntries)
  /\ lastOp' = IF watchQueued' THEN "updateExpenseAmount" ELSE lastOp
  /\ UNCHANGED <<incomeEntries, localStorage, mounted, saved, calcVars, csvVars>>

UpdateExpenseAmount(entryId, amount) ==
  /\ Ready
  /\ ~amount.nan
  /\ LET i == FindIndex(expenseEntries, entryId)
     IN IF i = 0 THEN UNCHANGED <<expenseEntries, watchQueued>>
        ELSE /\ expenseEntries' = [expenseEntries EXCEPT ![i].amount = amount]
             /\ watchQueued' = (expenseEntries[i].amount # amount)
  /\ lastOp' = IF watchQueued' THEN "updateExpenseAmount" ELSE lastOp
  /\ UNCHANGED <<incomeEntries, localStorage, mounted, saved, calcVars, csvVars>>

\* exportData, App.vue:120-136: the text of the downloaded file
exportData == JSONstringify(incomeEntries, expenseEntries)

\* importData's reader.onload, App.vue:145-158
ImportData(text) ==
  /\ Ready
  /\ LET r == loadDocument(text, incomeEntries, expenseEntries)
     IN /\ incomeEntries' = r[1]
        /\ expenseEntries' = r[2]
        /\ watchQueued' = (r[3] \/ r[4])
  /\ lastOp' = IF watchQueued' THEN "importData" ELSE lastOp
  /\ UNCHANGED <<localStorage, mounted, saved, calcVars, csvVars>>

\* removeData, App.vue:189-193
RemoveData ==
  /\ Ready
  /\ incomeEntries' = << >>
  /\ expenseEntries' = << >>
  /\ localStorage' = Absent
  /\ watchQueued' = TRUE
  /\ lastOp' = IF watchQueued' THEN "removeData" ELSE lastOp
  /\ UNCHANGED <<mounted, saved, calcVars, csvVars>>

\* a variant that assigns the parsed entries instead of pushing them
handleCsvImport_replacing(entries) ==
  LET IsIncome(entry) == entry.type = "income"
      IsExpense(entry) == entry.type = "expense"
  IN <<SelectSeq(entries, IsIncome), SelectSeq(entries, IsExpense)>>

\* handleCsvImport, App.vue:195-202
handleCsvImport(entries) ==
  LET IsIncome(entry) == entry.type = "income"
      IsExpense(entry) == entry.type = "expense"
  IN <<incomeEntries \o SelectSeq(entries, IsIncome),
       expenseEntries \o SelectSeq(entries, IsExpense)>>

\* parseCSV's reader.onload -> emit('import') -> handleCsvImport
CsvImport(text) ==
  /\ Ready
  /\ Len(incomeEntries) + Len(expenseEntries) + Len(parseCSV(text, UsedIds)) <= MaxEntries
  /\ LET entries == parseCSV(text, UsedIds)
         r == handleCsvImport(entries)
     IN /\ incomeEntries' = r[1]
        /\ expenseEntries' = r[2]
        /\ watchQueued' = (Len(entries) > 0)
  /\ lastOp' = IF watchQueued' THEN "handleCsvImport" ELSE lastOp
  /\ UNCHANGED <<localStorage, mounted, saved, calcVars, csvVars>>

\* the page is closed and opened again: the refs start empty (App.vue:7-8),
\* the slot is what the last session left
Reload ==
  /\ Ready
  /\ incomeEntries' = << >>
  /\ expenseEntries' = << >>
  /\ mounted' = FALSE
  /\ saved' = FALSE
  /\ UNCHANGED <<localStorage, watchQueued, lastOp, calcVars, csvVars>>

Init ==
  /\ incomeEntries = << >>
  /\ expenseEntries = << >>
  /\ localStorage \in InitialSlots
  /\ mounted = FALSE
  /\ watchQueued = FALSE
  /\ saved = FALSE
  /\ lastOp = "idle"
  /\ calcIn = << >>
  /\ calcOut = << >>
  /\ csvText = << >>
  /\ csvOut = << >>

Next ==
  \/ Mount
  \/ RunWatcher
  \/ \E d \in FormDescriptions, a \in FormAmounts, f \in FormFrequencies : AddIncome(d, a, f)
  \/ \E d \in FormDescriptions, a \in FormAmounts, f \in FormFrequencies : AddExpense(d, a, f)
  \/ \E id \in Ids(incomeEntries) \cup {NoSuchId} : RemoveIncome(id)
  \/ \E id \in Ids(expenseEntries) \cup {NoSuchId} : RemoveExpense(id)
  \/ \E id \in Ids(incomeEntries) \cup {NoSuchId}, t \in TaxLists : UpdateIncomeTaxes(id, t)
  \/ \E id \in Ids(incomeEntries) \cup {NoSuchId}, f \in EditFrequencies : UpdateIncomeFrequency(id, f)
  \/ \E id \in Ids(expenseEntries) \cup {NoSuchId}, f \in EditFrequencies : UpdateExpenseFrequency(id, f)
  \/ \E id \in Ids(incomeEntries) \cup {NoSuchId}, d \in EditDescriptions : UpdateIncomeDescription(id, d)
  \/ \E id \in Ids(incomeEntries) \cup {NoSuchId}, a \in EditAmounts : UpdateIncomeAmount(id, a)
  \/ \E id \in Ids(expenseEntries) \cup {NoSuchId}, d \in EditDescriptions : UpdateExpenseDescription(id, d)
  \/ \E id \in Ids(expenseEntries) \cup {NoSuchId}, a \in EditAmounts : UpdateExpenseAmount(id, a)
  \/ \E text \in JsonFiles \cup {exportData} : ImportData(text)
  \/ RemoveData
  \/ \E text \in StatementFiles : CsvImport(text)
  \/ Reload

Spec == Init /\ [][Next]_vars

(***************************************************************************)
(* SpecCalc: the two calculators applied to arguments drawn from samples.  *)
(***************************************************************************)
AmountSamples ==
  { IntNum(0), IntNum(1), IntNum(12), IntNum(100), IntNum(1000), IntNum(-50), Num(91, 2) }
FactorSamples == { IntNum(0), IntNum(3), IntNum(-1), Num(1, 2) }
Pct(p) == TaxElement("t", "tax", IntNum(p))
TaxSamples ==
  { Absent, Present(<< >>), Present(<<Pct(20)>>), Present(<<Pct(10), Pct(20)>>),
    Present(<<Pct(-5), Pct(150)>>), Present(<<Pct(10), Pct(20), Pct(30)>>) }

\* an entry as far as calculateMonthlyAmount reads it
Sample(amount, frequency) ==
  Entry("s", "sample", amount, frequency, Absent, TypeUndefined, UndefinedDate)

NoResult == [op |-> "none", value |-> NaN, scaled |-> NaN, asMonthly |-> NaN,
             times12 |-> NaN]

CalcInit ==
  /\ incomeEntries = << >>
  /\ expenseEntries = << >>
  /\ localStorage = Absent
  /\ mounted = FALSE
  /\ watchQueued = FALSE
  /\ saved = FALSE
  /\ lastOp = "idle"
  /\ calcIn \in [amount : AmountSamples, frequency : Frequencies,
                 k : FactorSamples, taxes : TaxSamples]
  /\ calcOut = NoResult
  /\ csvText = << >>
  /\ csvOut = << >>

\* calculateMonthlyAmount on the amount, on k times the amount, on the amount
\* as a monthly one and on twelve times the amount as a monthly one
EvalMonthlyAmount ==
  /\ calcOut = NoResult
  /\ calcOut' =
       [op |-> "monthlyAmount",
        value |-> calculateMonthlyAmount(Sample(calcIn.amount, calcIn.frequency)),
        scaled |-> calculateMonthlyAmount(
                     Sample(NumMul(calcIn.k, calcIn.amount), calcIn.frequency)),
        asMonthly |-> calculateMonthlyAmount(Sample(calcIn.amount, "monthly")),
        times12 |-> calculateMonthlyAmount(
                      Sample(NumMul(calcIn.amount, IntNum(12)), "monthly"))]
  /\ UNCHANGED <<storeVars, calcIn, csvVars>>

\* calculateTaxAmount with the amount as the monthly amount
EvalTaxAmount ==
  /\ calcOut = NoResult
  /\ calcOut' = [NoResult EXCEPT !.op = "taxAmount",
                                 !.value = calculateTaxAmount(calcIn.amount, calcIn.taxes)]
  /\ UNCHANGED <<storeVars, calcIn, csvVars>>

CalcNext == EvalMonthlyAmount \/ EvalTaxAmount

SpecCalc == CalcInit /\ [][CalcNext]_vars

(***************************************************************************)
(* SpecParser: parseCSV applied to statement texts of up to MaxRows data   *)
(* lines drawn from samples.                                               *)
(***************************************************************************)
DateTokens == {"01/03/2024", "n/a"}
DebitTokens == {"", "45.50", "0", "abc", "-20"}
CreditTokens == {"", "1200", "12abc", " "}
LineSamples ==
  { Row(d, "Groceries", debit, credit) :
      d \in DateTokens, debit \in DebitTokens, credit \in CreditTokens }
  \cup { <<"">>, <<" ">>, <<"01/03/2024", "", "Short">>,
         <<"", "", "Cash", "", "", "", "", "", "45.50">> }

RECURSIVE LinesUpTo(_)
LinesUpTo(n) ==
  IF n = 0 THEN { << >> }
  ELSE LET shorter == LinesUpTo(n - 1)
       IN shorter \cup { Append(ls, l) : ls \in shorter, l \in LineSamples }

StatementTexts == { <<Header>> \o ls : ls \in LinesUpTo(MaxRows) }

ParserInit ==
  /\ incomeEntries = << >>
  /\ expenseEntries = << >>
  /\ localStorage = Absent
  /\ mounted = FALSE
  /\ watchQueued = FALSE
  /\ saved = FALSE
  /\ lastOp = "idle"
  /\ calcIn = << >>
  /\ calcOut = << >>
  /\ csvText \in StatementTexts
  /\ csvOut = Absent

\* reader.onload of parseCSV, CsvImport.vue:11-38: what is emitted
ParseStatement ==
  /\ csvOut = Absent
  /\ csvOut' = Present(parseCSV(csvText, {}))
  /\ UNCHANGED <<storeVars, calcVars, csvText>>

ParserNext == ParseStatement

SpecParser == ParserInit /\ [][ParserNext]_vars

(***************************************************************************)
(* Claims.                                                                 *)
(***************************************************************************)
RECURSIVE SumMonthly(_)
SumMonthly(entries) ==
  IF Len(entries) = 0 THEN IntNum(0)
  ELSE NumAdd(calculateMonthlyAmount(Head(entries)), SumMonthly(Tail(entries)))

RECURSIVE SumTaxes(_)
SumTaxes(entries) ==
  IF Len(entries) = 0 THEN IntNum(0)
  ELSE NumAdd(calculateTaxAmount(calculateMonthlyAmount(Head(entries)), Head(entries).taxes),
              SumTaxes(Tail(entries)))

\* C1: in every reachable state the summary is the fold of the current
\* collections: totalIncome and totalTaxes are the sums of the income
\* entries' monthly amounts and tax amounts, totalExpenses the sum of the
\* expense entries' monthly amounts, netIncome = totalIncome - totalTaxes
\* and balance = totalIncome - totalTaxes - totalExpenses.
C1_SummaryIsFold ==
  LET read == summary
      income == SumMonthly(incomeEntries)
      taxes == SumTaxes(incomeEntries)
      expenses == SumMonthly(expenseEntries)
  IN /\ read.totalIncome = income
     /\ read.totalTaxes = taxes
     /\ read.totalExpenses = expenses
     /\ read.netIncome = NumSub(income, taxes)
     /\ read.balance = NumSub(NumSub(income, taxes), expenses)

\* C1 witness: a taxed weekly income of 1200 and a weekly expense of 1200,
\* after a mutation: 4800 gross, 1440 taxes, 3360 net, balance -1440.
C1_Witness ==
  /\ Len(incomeEntries) = 1 /\ Len(expenseEntries) = 1
  /\ incomeEntries[1].taxes = Present(<<VAT, Levy>>)
  /\ lastOp = "updateIncomeTaxes"
  /\ summary.totalIncome = IntNum(4800)
  /\ summary.totalTaxes = IntNum(1440)
  /\ summary.netIncome = IntNum(3360)
  /\ summary.balance = IntNum(-1440)

ExpectedMonthly(a, f) ==
  CASE f = "daily" -> Num(a.n * 30, a.d)
    [] f = "weekly" -> Num(a.n * 4, a.d)
    [] f = "monthly" -> a
    [] f = "yearly" -> Num(a.n, a.d * 12)

\* the table and the linearity of C2
C2_TableAndLinear ==
  /\ calcOut.value = ExpectedMonthly(calcIn.amount, calcIn.frequency)
  /\ calcOut.scaled = NumMul(calcIn.k, calcOut.value)

\* C2 as stated: monthlyAmount gives a*30, a*4, a, a/12 unrounded, is linear
\* in a, and monthlyAmount(a, yearly) = monthlyAmount(a*12, monthly) / 12.
C2_Original ==
  calcOut.op = "monthlyAmount" =>
    /\ C2_TableAndLinear
    /\ calcIn.frequency = "yearly" => calcOut.value = NumDiv(calcOut.times12, IntNum(12))

\* C2 amended: monthlyAmount gives a*30, a*4, a, a/12 unrounded, is linear
\* in a, and monthlyAmount(a, yearly) = monthlyAmount(a, monthly) / 12.
C2_MonthlyAmount ==
  calcOut.op = "monthlyAmount" =>
    /\ C2_TableAndLinear
    /\ calcIn.frequency = "yearly" => calcOut.value = NumDiv(calcOut.asMonthly, IntNum(12))

\* C2 witness: 100 a year is 25/3 a month, and three times as much is 25.
C2_Witness ==
  /\ calcOut.op = "monthlyAmount"
  /\ calcIn.frequency = "yearly" /\ calcIn.amount = IntNum(100) /\ calcIn.k = IntNum(3)
  /\ calcOut.value = Num(25, 3)
  /\ calcOut.scaled = IntNum(25)

RECURSIVE SumPercentages(_)
SumPercentages(list) ==
  IF Len(list) = 0 THEN IntNum(0)
  ELSE NumAdd(Head(list).percentage, SumPercentages(Tail(list)))

\* C3: taxAmount(m, taxes) is the sum of m * percentage / 100 over the tax
\* elements, every percentage on the same base m, so m times the sum of the
\* percentages over 100; 0 for an empty or absent list; negative and
\* over-100 percentages taken as they are.
C3_TaxAmount ==
  calcOut.op = "taxAmount" =>
    calcOut.value =
      IF calcIn.taxes = Absent THEN IntNum(0)
      ELSE NumDiv(NumMul(calcIn.amount, SumPercentages(calcIn.taxes[1])), IntNum(100))

\* C3 witness: 10% and 20% of 1000 are 300.
C3_Witness ==
  /\ calcOut.op = "taxAmount"
  /\ calcIn.amount = IntNum(1000)
  /\ calcIn.taxes = Present(<<Pct(10), Pct(20)>>)
  /\ calcOut.value = IntNum(300)

\* an object whose income and expenses are both arrays
WellShaped(text) ==
  text.kind = "object" /\ text.income.kind = "array" /\ text.expenses.kind = "array"

\* C4: an import or restore of a payload that is not an object with two
\* sequences is rejected whole: both collections stay as they were.
C4_RejectedImportChangesNothing ==
  [][ /\ \A text \in JsonFiles :
           (~WellShaped(text) /\ ImportData(text))
             => UNCHANGED <<incomeEntries, expenseEntries>>
      /\ (localStorage # Absent /\ ~WellShaped(localStorage[1]) /\ Mount)
           => UNCHANGED <<incomeEntries, expenseEntries>> ]_vars

\* column i of a line as the claim reads it: 0 when missing, empty or not a number
ColumnOrZero(values, i) ==
  LET f == Field(values, i)
  IN IF f = Absent THEN IntNum(0)
     ELSE IF f[1] = "" THEN IntNum(0)
     ELSE IF parseFloat(f[1]).nan THEN IntNum(0)
     ELSE parseFloat(f[1])

ExpectedLine(values) ==
  LET debit == ColumnOrZero(values, 8)
      credit == ColumnOrZero(values, 9)
  IN [type |-> IF debit.n # 0 THEN "expense" ELSE "income",
      amount |-> IF debit.n # 0 THEN MathAbs(debit) ELSE MathAbs(credit),
      frequency |-> "monthly",
      taxes |-> Present(<< >>)]

RECURSIVE ExpectedEntries(_)
ExpectedEntries(lines) ==
  IF Len(lines) = 0 THEN << >>
  ELSE IF IsBlankLine(Head(lines)) \/ ExpectedLine(Head(lines)).amount.n = 0
       THEN ExpectedEntries(Tail(lines))
       ELSE <<ExpectedLine(Head(lines))>> \o ExpectedEntries(Tail(lines))

TypeAmountFrequencyTaxes(entries) ==
  [i \in 1..Len(entries) |->
     [type |-> entries[i].type, amount |-> entries[i].amount,
      frequency |-> entries[i].frequency, taxes |-> entries[i].taxes]]

\* C5: for the non-blank lines after the header, in order: an empty or
\* unparseable debit or credit counts as 0; a non-zero debit makes an
\* expense of abs(debit), otherwise an income of abs(credit); frequency is
\* monthly, taxes empty; entries of amount 0 are dropped.
C5_ParsedEntries ==
  csvOut # Absent =>
    TypeAmountFrequencyTaxes(csvOut[1]) = ExpectedEntries(Tail(csvText))

\* C5 witness: an unparseable debit with a credit of 1200 became an income
\* of 1200, and the line after it, a debit of 0 and no credit, was dropped.
C5_Witness ==
  /\ csvOut # Absent
  /\ csvText = <<Header, Row("01/03/2024", "Groceries", "abc", "1200"),
                         Row("01/03/2024", "Groceries", "0", "")>>
  /\ Len(csvOut[1]) = 1
  /\ csvOut[1][1].type = "income"
  /\ csvOut[1][1].amount = IntNum(1200)

\* C6: normalizing an entry whose frequency is none of the four is rejected
\* with InvalidFrequency; it is not answered with the amount taken as a
\* monthly one.  (Such an entry reaches the store by a JSON import or a
\* restore, and the summary normalizes every entry of the store.)
C6_UnknownFrequencyRejected ==
  \A i \in 1..Len(incomeEntries) :
    incomeEntries[i].frequency \notin Frequencies =>
      LET outcome == monthlyAmountOutcome(incomeEntries[i])
      IN /\ outcome.kind = "InvalidFrequency"
         /\ ~(outcome.kind = "returned" /\ outcome.value = incomeEntries[i].amount)

\* the date of a line parses
DateParses(values) == NewDate(Join(Reverse(SplitSlash(values[1])), "-")) # InvalidDate

WithoutIds(entries) == [i \in 1..Len(entries) |-> [entries[i] EXCEPT !.id = ""]]

\* C7: a line whose date does not parse is skipped, it leaves no entry, and
\* the other lines of the text are imported as without it, in input order.
C7_BadDateLineSkipped ==
  csvOut # Absent =>
    /\ \A i \in 1..Len(csvOut[1]) : csvOut[1][i].date # InvalidDate
    /\ WithoutIds(csvOut[1]) =
         WithoutIds(parseCSV(<<Header>> \o SelectSeq(Tail(csvText), DateParses), {}))

Range(seq) == {seq[i] : i \in 1..Len(seq)}

\* C8: a statement import appends: the entries held before are still there,
\* unchanged and in order, at the front of their collections, and every
\* parsed entry is added once, an income to the income collection and an
\* expense to the expense collection.  (An import that adds an entry names
\* itself in lastOp; one that parses no entry changes no variable.)
C8_CsvImportAppends ==
  [][ \A text \in StatementFiles :
        (lastOp' = "handleCsvImport" /\ CsvImport(text)) =>
          LET parsed == parseCSV(text, UsedIds)
              addedIncome == SubSeq(incomeEntries', Len(incomeEntries) + 1,
                                    Len(incomeEntries'))
              addedExpenses == SubSeq(expenseEntries', Len(expenseEntries) + 1,
                                      Len(expenseEntries'))
          IN /\ Len(incomeEntries') >= Len(incomeEntries)
             /\ Len(expenseEntries') >= Len(expenseEntries)
             /\ SubSeq(incomeEntries', 1, Len(incomeEntries)) = incomeEntries
             /\ SubSeq(expenseEntries', 1, Len(expenseEntries)) = expenseEntries
             /\ Len(addedIncome) + Len(addedExpenses) = Len(parsed)
             /\ Range(addedIncome) \cup Range(addedExpenses) = Range(parsed)
             /\ \A e \in Range(addedIncome) : e.type = "income"
             /\ \A e \in Range(addedExpenses) : e.type = "expense" ]_vars

\* C8 witness: a statement import has put its income behind the income the
\* entry form added before.
C8_Witness ==
  /\ lastOp = "handleCsvImport"
  /\ Len(incomeEntries) = 2
  /\ incomeEntries[1].type = TypeUndefined
  /\ incomeEntries[2].type = "income"
  /\ incomeEntries[2].date.kind = "Date"

\* loadFromLocalStorage at the next startup: the slot read into the empty refs
Restored == loadDocument(localStorage[1], << >>, << >>)

\* every mutation has queued the watcher, and once it has run the slot holds
\* the serialisation of the current collections
C9_SlotFollows ==
  localStorage = Present(JSONstringify(incomeEntries, expenseEntries))

\* C9 as stated: after any mutation, once the pending watcher has run, the
\* slot holds the serialisation of the current collections, and a restore
\* at the next startup yields collections equal to the current ones.
C9_Original ==
  (saved /\ ~watchQueued) =>
    /\ C9_SlotFollows
    /\ Restored[1] = incomeEntries
    /\ Restored[2] = expenseEntries

\* the stores a backup is imported into: the exporting one, an empty one,
\* one holding other entries
ImportTargets ==
  { <<incomeEntries, expenseEntries>>, << << >>, << >> >>, << <<Bonus>>, <<Lease>> >> }

\* C10 as stated: importing the export of the current collections yields
\* collections equal to the exported ones, empty ones included, and a
\* re-export gives the same document.
C10_Original ==
  \A target \in ImportTargets :
    LET r == loadDocument(exportData, target[1], target[2])
    IN /\ r[1] = incomeEntries
       /\ r[2] = expenseEntries
       /\ JSONstringify(r[1], r[2]) = exportData

\* amount >= 0 (NaN is not)
NumGeqZero(x) == ~x.nan /\ x.n >= 0

\* C11: in every state reachable by add, update-amount, JSON import, CSV
\* import and restore, every entry of the income and expense collections
\* has amount >= 0.
C11_AmountsNonNegative ==
  /\ \A i \in 1..Len(incomeEntries) : NumGeqZero(incomeEntries[i].amount)
  /\ \A i \in 1..Len(expenseEntries) : NumGeqZero(expenseEntries[i].amount)

\* no two positions of the collection hold the same id
UniqueIds(entries) ==
  \A i, j \in 1..Len(entries) : entries[i].id = entries[j].id => i = j

\* C12: in every state reachable by add, remove, update, JSON import, CSV
\* import and restore, no two entries of the same collection (income, or
\* expenses) have the same id.
C12_IdsUniquePerCollection ==
  UniqueIds(incomeEntries) /\ UniqueIds(expenseEntries)

\* the two entries agree on every field but the named one
SameBut(old, new, field) ==
  /\ DOMAIN new = DOMAIN old
  /\ \A f \in DOMAIN old \ {field} : new[f] = old[f]

\* an update of one field on an id: the other collection is as it was, no
\* entry is added or removed, entries with another id are as they were,
\* at most one entry differs and only in that field, an entry with the id
\* (if there is one) now holds the value
UpdateIsLocal(old, new, otherOld, otherNew, id, field, value) ==
  /\ otherNew = otherOld
  /\ Len(new) = Len(old)
  /\ \A j \in 1..Len(old) :
       IF old[j].id = id THEN SameBut(old[j], new[j], field) ELSE new[j] = old[j]
  /\ Cardinality({j \in 1..Len(old) : new[j] # old[j]}) <= 1
  /\ id \notin Ids(old) => new = old
  /\ id \in Ids(old) => \E j \in 1..Len(new) : new[j].id = id /\ new[j][field] = value

\* the entries left when those with the id are taken out, in order
RECURSIVE Without(_, _)
Without(entries, id) ==
  IF Len(entries) = 0 THEN << >>
  ELSE IF Head(entries).id = id THEN Without(Tail(entries), id)
       ELSE <<Head(entries)>> \o Without(Tail(entries), id)

RemoveIsLocal(old, new, otherOld, otherNew, id) ==
  /\ otherNew = otherOld
  /\ new = Without(old, id)

UpdateIds(entries) == Ids(entries) \cup {NoSuchId}

\* C13: each update (description, amount, frequency, taxes) on an id
\* changes only that field of the entry with that id in the addressed
\* collection, adds and removes no entry and leaves the other collection
\* unchanged; an update whose id matches no entry leaves both collections
\* unchanged; remove(id) deletes only the entries with that id from the
\* addressed collection and keeps the others in order.
C13_UpdatesAndRemovesAreLocal ==
  [][ \/ UNCHANGED vars
      \/ /\ \A id \in UpdateIds(incomeEntries) :
             /\ \A t \in TaxLists : UpdateIncomeTaxes(id, t) =>
                   UpdateIsLocal(incomeEntries, incomeEntries', expenseEntries,
                                 expenseEntries', id, "taxes", Present(t))
             /\ \A f \in EditFrequencies : UpdateIncomeFrequency(id, f) =>
                   UpdateIsLocal(incomeEntries, incomeEntries', expenseEntries,
                                 expenseEntries', id, "frequency", f)
             /\ \A d \in EditDescriptions : UpdateIncomeDescription(id, d) =>
                   UpdateIsLocal(incomeEntries, incomeEntries', expenseEntries,
                                 expenseEntries', id, "description", d)
             /\ \A a \in EditAmounts : UpdateIncomeAmount(id, a) =>
                   UpdateIsLocal(incomeEntries, incomeEntries', expenseEntries,
                                 expenseEntries', id, "amount", a)
             /\ RemoveIncome(id) =>
                   RemoveIsLocal(incomeEntries, incomeEntries', expenseEntries,
                                 expenseEntries', id)
         /\ \A id \in UpdateIds(expenseEntries) :
             /\ \A f \in EditFrequencies : UpdateExpenseFrequency(id, f) =>
                   UpdateIsLocal(expenseEntries, expenseEntries', incomeEntries,
                                 incomeEntries', id, "frequency", f)
             /\ \A d \in EditDescriptions : UpdateExpenseDescription(id, d) =>
                   UpdateIsLocal(expenseEntries, expenseEntries', incomeEntries,
                                 incomeEntries', id, "description", d)
             /\ \A a \in EditAmounts : UpdateExpenseAmount(id, a) =>
                   UpdateIsLocal(expenseEntries, expenseEntries', incomeEntries,
                                 incomeEntries', id, "amount", a)
             /\ RemoveExpense(id) =>
                   RemoveIsLocal(expenseEntries, expenseEntries', incomeEntries,
                                 incomeEntries', id) ]_vars

\* C13 witness: of two expenses from the entry form the second has just had
\* its amount edited; the first is as it was added.
C13_Witness ==
  /\ lastOp = "updateExpenseAmount"
  /\ Len(expenseEntries) = 2
  /\ expenseEntries[1].amount = IntNum(1200)
  /\ expenseEntries[2].amount = IntNum(-50)
  /\ expenseEntries[1].id # expenseEntries[2].id

====
